---- MODULE Spec2Model ----
(***************************************************************************)
(* A model of the dock partitioning engine of dock_sorter.                 *)
(*                                                                         *)
(* process_docks (src/src/processor.rs) is modelled as a state machine:    *)
(* the exception resolver runs one raw group per step, the unstable sort   *)
(* of the resolved groups is one step, the two priority loops run one      *)
(* hash-set element per step (in any order), and the sequential            *)
(* partitioner runs one outer-loop iteration or one extension-loop         *)
(* iteration per step.                                                     *)
(***************************************************************************)
EXTENDS Integers, Sequences, FiniteSets, TLC

(***************************************************************************)
(* Bounds of the model.                                                    *)
(***************************************************************************)
\* largest dock number an input may mention (dock numbers are 0..MaxDock)
MaxDock == 3
\* largest total number of members of the raw exception groups
MaxMembers == 3

(***************************************************************************)
(* Program constants.                                                      *)
(***************************************************************************)
\* enum Priority: derive(PartialOrd, Ord) orders the variants as declared
First == 1
Second == 2
Third == 3

Docks == 0..MaxDock

\* u32::MAX, the sort key of an empty group: the model checker's integers end
\* below 2^32 - 1, so the model takes a number above every dock number
U32Max == MaxDock + 1

\* Option<u16>: None is <<>>, Some(n) is <<n>>
None == <<>>
Some(n) == <<n>>
unwrap_or(opt, dflt) == IF opt = None THEN dflt ELSE opt[1]

VARIABLES
  args,                        \* the parsed command line (cli.rs Args)
  pc,                          \* position in main / process_docks
  first_priority_docks,        \* HashSet<u32>
  second_priority_docks,       \* HashSet<u32>
  final_exception_groups,      \* Vec<Vec<u32>>
  all_exception_docks,         \* HashSet<u32>
  warnings,                    \* Vec<String>, a message is <<kind, dock>>
  stderr,                      \* what eprintln! has written so far
  priorities,                  \* HashMap<u32, Priority>
  ex_idx,                      \* next raw exception group of the for loop
  first_iter,                  \* docks the first-priority loop has yet to visit
  second_iter,                 \* docks the second-priority loop has yet to visit
  result_groups,               \* Vec<Vec<u32>>
  processed_docks_in_grouping, \* HashSet<u32>
  scan_idx,                    \* position of the outer for loop in all_docks_in_range
  regular_group,               \* Vec<u32>, the group being extended
  current_target_per_page,     \* capacity of the group being extended
  next_dock_idx_in_range,      \* 0-based index of the next candidate
  previous,                    \* what an earlier run on the same args gave, if any
  exit_code,                   \* the status std::process::exit was called with, if any
  extension_steps              \* history: how often the body of the while loop
                               \* has pushed a candidate (claimed) and has broken
                               \* off (stopped) in this run of process_docks

vars == <<args, pc, first_priority_docks, second_priority_docks,
          final_exception_groups, all_exception_docks, warnings, stderr,
          priorities, ex_idx, first_iter, second_iter, result_groups,
          processed_docks_in_grouping, scan_idx, regular_group,
          current_target_per_page, next_dock_idx_in_range, previous,
          exit_code, extension_steps>>

(***************************************************************************)
(* Helpers on vectors.                                                     *)
(***************************************************************************)
Range(s) == {s[i] : i \in 1..Len(s)}

SeqsUpTo(S, n) == UNION {[1..k -> S] : k \in 0..n}

NonEmptySeqsUpTo(S, n) == UNION {[1..k -> S] : k \in 1..n}

MinOf(S) == CHOOSE x \in S : \A y \in S : x <= y

RemoveAt(s, i) == [j \in 1..(Len(s) - 1) |-> IF j < i THEN s[j] ELSE s[j + 1]]

\* a variant: the group is left in the order of the input
sort_unstable_skipped(s) == s

\* Vec<u32>::sort_unstable: equal numbers are indistinguishable, so the
\* outcome is the one ascending arrangement of the members
RECURSIVE sort_unstable(_)
sort_unstable(s) ==
  IF s = <<>> THEN <<>>
  ELSE LET m == MinOf(Range(s))
           i == CHOOSE k \in 1..Len(s) : s[k] = m
       IN  <<m>> \o sort_unstable(RemoveAt(s, i))

\* a variant: repeated members are kept
dedup_skipped(s) == s

\* Vec::dedup: removes consecutive repeated elements
RECURSIVE dedup(_)
dedup(s) ==
  IF Len(s) <= 1 THEN s
  ELSE IF s[1] = s[2] THEN dedup(Tail(s))
       ELSE <<s[1]>> \o dedup(Tail(s))

InRange(d) == d >= args.min /\ d <= args.max

\* a variant: the range written args.min..args.max, without the last dock
all_docks_in_range_exclusive ==
  [i \in 1..(args.max - args.min) |-> args.min + i - 1]

\* (args.min..=args.max).collect()
all_docks_in_range == [i \in 1..(args.max - args.min + 1) |-> args.min + i - 1]

fpp == unwrap_or(args.first_priority_per_page, args.per_page)
spp == unwrap_or(args.second_priority_per_page, args.per_page)
gpp == args.per_page

\* priorities.get(&d).unwrap_or(&Priority::Third)
PriorityOf(d) == IF d \in DOMAIN priorities THEN priorities[d] ELSE Third

(***************************************************************************)
(* Exception Group Resolver: the body of the loop over the raw groups.     *)
(***************************************************************************)
\* the warnings the filter closure pushes, in the order of the raw group
RECURSIVE OutOfRangeWarnings(_, _)
OutOfRangeWarnings(raw, kind) ==
  IF raw = <<>> THEN <<>>
  ELSE (IF InRange(Head(raw)) THEN <<>> ELSE << <<kind, Head(raw)>> >>)
       \o OutOfRangeWarnings(Tail(raw), kind)

\* a variant: the raw group is taken without the range filter
current_ex_group_unfiltered(raw) == dedup(sort_unstable(raw))

\* raw_ex_group.iter().filter(in range).copied().collect(), sorted, deduplicated
current_ex_group(raw) == dedup(sort_unstable(SelectSeq(raw, InRange)))

\* a variant: the claim loop takes every dock
IsUnclaimedAlways(dock, claimed) == TRUE

\* the test of the claim loop: the dock is not yet part of an exception group
IsUnclaimed(dock, claimed) == dock \notin claimed

\* for dock in current_ex_group { ... }: first claim wins
RECURSIVE ClaimLoop(_, _, _, _)
ClaimLoop(group, claimed, filtered_group, warns) ==
  IF group = <<>>
  THEN [filtered_group |-> filtered_group, claimed |-> claimed, warns |-> warns]
  ELSE LET dock == Head(group) IN
       IF IsUnclaimed(dock, claimed)
       THEN ClaimLoop(Tail(group), claimed \cup {dock},
                      Append(filtered_group, dock), warns)
       ELSE ClaimLoop(Tail(group), claimed, filtered_group,
                      Append(warns, <<"exception_duplicate", dock>>))

\* the groups that final_exception_groups holds after one raw group
PushFiltered(groups, filtered_group) ==
  IF filtered_group # <<>> THEN Append(groups, filtered_group) ELSE groups

ResolveGroup ==
  /\ pc = "resolve"
  /\ ex_idx <= Len(args.exception_groups_raw)
  /\ LET raw == args.exception_groups_raw[ex_idx]
         cur == current_ex_group(raw)
         w1  == warnings \o OutOfRangeWarnings(raw, "exception_out_of_range")
         r   == ClaimLoop(cur, all_exception_docks, <<>>, w1)
     IN  /\ all_exception_docks' = r.claimed
         /\ warnings' = r.warns
         /\ final_exception_groups' =
              PushFiltered(final_exception_groups, r.filtered_group)
  /\ ex_idx' = ex_idx + 1
  /\ UNCHANGED <<args, previous, exit_code, extension_steps,
                 pc, first_priority_docks, second_priority_docks, stderr,
                 priorities, first_iter, second_iter, result_groups,
                 processed_docks_in_grouping, scan_idx, regular_group,
                 current_target_per_page, next_dock_idx_in_range>>

(***************************************************************************)
(* final_exception_groups.sort_unstable_by_key(first member or u32::MAX).  *)
(* An unstable sort may leave groups of equal key in any order.            *)
(***************************************************************************)
\* a variant: the groups are sorted by their length
GroupKeyLength(group) == Len(group)

GroupKey(group) == IF group = <<>> THEN U32Max ELSE group[1]

Permutations1(n) ==
  {f \in [1..n -> 1..n] : \A i, j \in 1..n : i # j => f[i] # f[j]}

\* a variant: the resolved groups are left in input order
SortOutcomesInputOrder(groups) == {groups}

SortOutcomes(groups) ==
  {[i \in 1..Len(groups) |-> groups[f[i]]] : f \in
     {g \in Permutations1(Len(groups)) :
        \A i, j \in 1..Len(groups) :
           i < j => GroupKey(groups[g[i]]) <= GroupKey(groups[g[j]])}}

SortExceptionGroups ==
  /\ pc = "resolve"
  /\ ex_idx > Len(args.exception_groups_raw)
  /\ final_exception_groups' \in SortOutcomes(final_exception_groups)
  /\ pc' = "classify"
  /\ UNCHANGED <<args, previous, exit_code, extension_steps,
                 first_priority_docks, second_priority_docks,
                 all_exception_docks, warnings, stderr, priorities, ex_idx,
                 first_iter, second_iter, result_groups,
                 processed_docks_in_grouping, scan_idx, regular_group,
                 current_target_per_page, next_dock_idx_in_range>>

(***************************************************************************)
(* Priority Classifier: one element of a hash set per step, in any order.  *)
(***************************************************************************)
\* a variant: the test of both loops without the exception docks
IsClassifiableInRangeOnly(dock) == InRange(dock)

\* the test of both loops: in range and not an exception dock
IsClassifiable(dock) == InRange(dock) /\ dock \notin all_exception_docks

\* priorities.insert(dock, prio)
MapInsert(map, dock, prio) ==
  [d \in DOMAIN map \cup {dock} |-> IF d = dock THEN prio ELSE map[d]]

\* a variant: priorities.insert(dock, prio) in the second loop too
MapOrInsertOverwrites(map, dock, prio) ==
  [d \in DOMAIN map \cup {dock} |-> IF d = dock THEN prio ELSE map[d]]

\* priorities.entry(dock).or_insert(prio)
MapOrInsert(map, dock, prio) ==
  IF dock \in DOMAIN map THEN map ELSE MapInsert(map, dock, prio)

ClassifyFirst ==
  /\ pc = "classify"
  /\ first_iter # {}
  /\ \E dock \in first_iter :
       /\ first_iter' = first_iter \ {dock}
       /\ priorities' = IF IsClassifiable(dock)
                        THEN MapInsert(priorities, dock, First)
                        ELSE priorities
       /\ warnings' = IF ~IsClassifiable(dock) /\ ~InRange(dock)
                      THEN Append(warnings, <<"first_out_of_range", dock>>)
                      ELSE warnings
  /\ UNCHANGED <<args, previous, exit_code, extension_steps,
                 pc, first_priority_docks, second_priority_docks,
                 final_exception_groups, all_exception_docks, stderr, ex_idx,
                 second_iter, result_groups, processed_docks_in_grouping,
                 scan_idx, regular_group, current_target_per_page,
                 next_dock_idx_in_range>>

ClassifySecond ==
  /\ pc = "classify"
  /\ first_iter = {}
  /\ second_iter # {}
  /\ \E dock \in second_iter :
       /\ second_iter' = second_iter \ {dock}
       /\ priorities' = IF IsClassifiable(dock)
                        THEN MapOrInsert(priorities, dock, Second)
                        ELSE priorities
       /\ warnings' = IF ~IsClassifiable(dock) /\ ~InRange(dock)
                      THEN Append(warnings, <<"second_out_of_range", dock>>)
                      ELSE warnings
  /\ UNCHANGED <<args, previous, exit_code, extension_steps,
                 pc, first_priority_docks, second_priority_docks,
                 final_exception_groups, all_exception_docks, stderr, ex_idx,
                 first_iter, result_groups, processed_docks_in_grouping,
                 scan_idx, regular_group, current_target_per_page,
                 next_dock_idx_in_range>>

\* a variant: the warnings are not printed but kept for the caller
EmitWarningsKeptForCaller ==
  /\ pc = "classify"
  /\ first_iter = {}
  /\ second_iter = {}
  /\ pc' = "scan"
  /\ UNCHANGED <<args, previous, exit_code, extension_steps,
                 first_priority_docks,
                 second_priority_docks, final_exception_groups,
                 all_exception_docks, warnings, stderr, priorities, ex_idx,
                 first_iter, second_iter, result_groups,
                 processed_docks_in_grouping, scan_idx, regular_group,
                 current_target_per_page, next_dock_idx_in_range>>

\* for warning in warnings { eprintln!("{warning}") }: the loop takes the
\* vector by value, so nothing of it is left; the scan then starts
EmitWarnings ==
  /\ pc = "classify"
  /\ first_iter = {}
  /\ second_iter = {}
  /\ stderr' = stderr \o warnings
  /\ warnings' = <<>>
  /\ pc' = "scan"
  /\ UNCHANGED <<args, previous, exit_code, extension_steps,
                 first_priority_docks, second_priority_docks,
                 final_exception_groups, all_exception_docks,
                 priorities, ex_idx, first_iter, second_iter, result_groups,
                 processed_docks_in_grouping, scan_idx, regular_group,
                 current_target_per_page, next_dock_idx_in_range>>

(***************************************************************************)
(* Sequential Partitioner: the outer loop over all_docks_in_range.         *)
(***************************************************************************)
current_dock == all_docks_in_range[scan_idx]

\* a variant: a group is looked up by its last member
ExceptionStartsAtLast(dock) ==
  {i \in 1..Len(final_exception_groups) :
     /\ final_exception_groups[i] # <<>>
     /\ final_exception_groups[i][Len(final_exception_groups[i])] = dock}

\* for ex_g in &final_exception_groups { if ex_g.first() == Some(&dock) ... break }
ExceptionStarts(dock) ==
  {i \in 1..Len(final_exception_groups) :
     /\ final_exception_groups[i] # <<>>
     /\ final_exception_groups[i][1] = dock}

\* a variant: the index is one too far
PositionOfNext(dock) ==
  LET hits == {i \in 1..Len(all_docks_in_range) : all_docks_in_range[i] = dock}
  IN  IF hits = {} THEN 0 ELSE MinOf(hits)

\* all_docks_in_range.iter().position(|&d| d == dock).unwrap_or(0)
Position(dock) ==
  LET hits == {i \in 1..Len(all_docks_in_range) : all_docks_in_range[i] = dock}
  IN  IF hits = {} THEN 0 ELSE MinOf(hits) - 1

\* a variant: the arms for First and Third exchanged
TargetPerPageExchanged(prio) ==
  IF prio = First THEN gpp ELSE IF prio = Second THEN spp ELSE fpp

\* match current_dock_priority { First => fpp, Second => spp, Third => gpp }
TargetPerPage(prio) ==
  IF prio = First THEN fpp ELSE IF prio = Second THEN spp ELSE gpp

\* if processed_docks_in_grouping.contains(&current_dock) { continue; }
ScanSkip ==
  /\ pc = "scan"
  /\ scan_idx <= Len(all_docks_in_range)
  /\ current_dock \in processed_docks_in_grouping
  /\ scan_idx' = scan_idx + 1
  /\ UNCHANGED <<args, previous, exit_code, extension_steps,
                 pc, first_priority_docks, second_priority_docks,
                 final_exception_groups, all_exception_docks, warnings, stderr,
                 priorities, ex_idx, first_iter, second_iter, result_groups,
                 processed_docks_in_grouping, regular_group,
                 current_target_per_page, next_dock_idx_in_range>>

\* the current dock is an exception dock: its group is emitted when the dock
\* is the first member of a resolved group, and nothing is emitted otherwise
ScanException ==
  /\ pc = "scan"
  /\ scan_idx <= Len(all_docks_in_range)
  /\ current_dock \notin processed_docks_in_grouping
  /\ current_dock \in all_exception_docks
  /\ LET starts == ExceptionStarts(current_dock) IN
       IF starts # {}
       THEN LET ex_group == final_exception_groups[MinOf(starts)] IN
            /\ result_groups' = Append(result_groups, ex_group)
            /\ processed_docks_in_grouping' =
                 processed_docks_in_grouping \cup Range(ex_group)
       ELSE UNCHANGED <<result_groups, processed_docks_in_grouping>>
  /\ scan_idx' = scan_idx + 1
  /\ UNCHANGED <<args, previous, exit_code, extension_steps,
                 pc, first_priority_docks, second_priority_docks,
                 final_exception_groups, all_exception_docks, warnings, stderr,
                 priorities, ex_idx, first_iter, second_iter, regular_group,
                 current_target_per_page, next_dock_idx_in_range>>

\* a regular group is seeded with the current dock
StartRegular ==
  /\ pc = "scan"
  /\ scan_idx <= Len(all_docks_in_range)
  /\ current_dock \notin processed_docks_in_grouping
  /\ current_dock \notin all_exception_docks
  /\ regular_group' = <<current_dock>>
  /\ processed_docks_in_grouping' = processed_docks_in_grouping \cup {current_dock}
  /\ current_target_per_page' = TargetPerPage(PriorityOf(current_dock))
  /\ next_dock_idx_in_range' = Position(current_dock) + 1
  /\ pc' = "extend"
  /\ UNCHANGED <<args, previous, exit_code, extension_steps,
                 first_priority_docks, second_priority_docks,
                 final_exception_groups, all_exception_docks, warnings, stderr,
                 priorities, ex_idx, first_iter, second_iter, result_groups,
                 scan_idx>>

(***************************************************************************)
(* The extension loop of a regular group.                                  *)
(***************************************************************************)
\* a variant: the size test written <= instead of <
LoopConditionOffByOne ==
  /\ Len(regular_group) <= current_target_per_page
  /\ next_dock_idx_in_range < Len(all_docks_in_range)

\* while regular_group.len() < target && next_dock_idx_in_range < len
LoopCondition ==
  /\ Len(regular_group) < current_target_per_page
  /\ next_dock_idx_in_range < Len(all_docks_in_range)

next_dock_candidate == all_docks_in_range[next_dock_idx_in_range + 1]

\* a variant: stop 1 without the test for exception docks
IsTakenIgnoringExceptions(dock) == dock \in processed_docks_in_grouping

\* stop 1: the candidate is already processed or is an exception dock
IsTaken(dock) ==
  dock \in processed_docks_in_grouping \/ dock \in all_exception_docks

\* a variant: stop 2 at any change of priority
should_break_on_any_change(dock) ==
  PriorityOf(dock) # PriorityOf(regular_group[1])

\* a variant: stop 2 without the priority rule, the strict modes only
should_break_strict_only(dock) ==
  LET regular_group_first_prio == PriorityOf(regular_group[1])
      next_candidate_prio == PriorityOf(dock)
  IN  \/ /\ regular_group_first_prio = First
         /\ args.strict_first
         /\ next_candidate_prio # First
      \/ /\ regular_group_first_prio = Second
         /\ args.strict_second
         /\ next_candidate_prio # Second

\* a variant: stop 2 without the strict modes, the priority rule only
should_break_priority_only(dock) ==
  PriorityOf(dock) < PriorityOf(regular_group[1])

\* stop 2: the priority rule and the two strict modes
should_break(dock) ==
  LET regular_group_first_prio == PriorityOf(regular_group[1])
      next_candidate_prio == PriorityOf(dock)
  IN  \/ next_candidate_prio < regular_group_first_prio
      \/ /\ regular_group_first_prio = First
         /\ args.strict_first
         /\ next_candidate_prio # First
      \/ /\ regular_group_first_prio = Second
         /\ args.strict_second
         /\ next_candidate_prio # Second

\* one more iteration of the while loop appends the candidate
Extends ==
  /\ LoopCondition
  /\ ~IsTaken(next_dock_candidate)
  /\ ~should_break(next_dock_candidate)

\* a variant: the pushed candidate is not entered into the processed set
ExtendStepWithoutClaim ==
  /\ pc = "extend"
  /\ Extends
  /\ regular_group' = Append(regular_group, next_dock_candidate)
  /\ next_dock_idx_in_range' = next_dock_idx_in_range + 1
  /\ extension_steps' = [extension_steps EXCEPT !.claimed = @ + 1]
  /\ UNCHANGED <<args, previous, exit_code, pc, first_priority_docks,
                 second_priority_docks, final_exception_groups,
                 all_exception_docks, warnings, stderr, priorities, ex_idx,
                 first_iter, second_iter, result_groups,
                 processed_docks_in_grouping, scan_idx,
                 current_target_per_page>>

ExtendStep ==
  /\ pc = "extend"
  /\ Extends
  /\ regular_group' = Append(regular_group, next_dock_candidate)
  /\ processed_docks_in_grouping' =
       processed_docks_in_grouping \cup {next_dock_candidate}
  /\ next_dock_idx_in_range' = next_dock_idx_in_range + 1
  /\ extension_steps' = [extension_steps EXCEPT !.claimed = @ + 1]
  /\ UNCHANGED <<args, previous, exit_code,
                 pc, first_priority_docks, second_priority_docks,
                 final_exception_groups, all_exception_docks, warnings, stderr,
                 priorities, ex_idx, first_iter, second_iter, result_groups,
                 scan_idx, current_target_per_page>>

\* the loop ends (condition false or break): result_groups.push(regular_group)
ExtendStop ==
  /\ pc = "extend"
  /\ ~Extends
  /\ result_groups' = Append(result_groups, regular_group)
  /\ regular_group' = <<>>
  /\ scan_idx' = scan_idx + 1
  /\ pc' = "scan"
  /\ extension_steps' =
       IF LoopCondition
       THEN [extension_steps EXCEPT !.stopped = @ + 1]
       ELSE extension_steps
  /\ UNCHANGED <<args, previous, exit_code,
                 first_priority_docks, second_priority_docks,
                 final_exception_groups, all_exception_docks, warnings, stderr,
                 priorities, ex_idx, first_iter, second_iter,
                 processed_docks_in_grouping, current_target_per_page,
                 next_dock_idx_in_range>>

\* the outer loop is over: ProcessingResult { ... } is returned
Return ==
  /\ pc = "scan"
  /\ scan_idx > Len(all_docks_in_range)
  /\ pc' = "done"
  /\ UNCHANGED <<args, previous, exit_code, extension_steps,
                 first_priority_docks, second_priority_docks,
                 final_exception_groups, all_exception_docks, warnings, stderr,
                 priorities, ex_idx, first_iter, second_iter, result_groups,
                 processed_docks_in_grouping, scan_idx, regular_group,
                 current_target_per_page, next_dock_idx_in_range>>

(***************************************************************************)
(* main: the validation of the input, then the entry of process_docks.     *)
(***************************************************************************)
\* a variant: the validation without the comparison of min and max
validate_input_caps_only(a) ==
  IF a.per_page = 0 THEN "Err"
  ELSE IF a.first_priority_per_page = Some(0) THEN "Err"
  ELSE IF a.second_priority_per_page = Some(0) THEN "Err"
  ELSE "Ok"

validate_input(a) ==
  IF a.per_page = 0 THEN "Err"
  ELSE IF a.first_priority_per_page = Some(0) THEN "Err"
  ELSE IF a.second_priority_per_page = Some(0) THEN "Err"
  ELSE IF a.min > a.max THEN "Err"
  ELSE "Ok"

\* args.first_priority.clone().into_iter().flatten().collect::<HashSet<u32>>()
Flatten(vv) == UNION {Range(vv[i]) : i \in 1..Len(vv)}

\* eprintln!(error); std::process::exit(1)
ValidateFails ==
  /\ pc = "main"
  /\ validate_input(args) = "Err"
  /\ stderr' = Append(stderr, <<"error", 1>>)
  /\ exit_code' = Some(1)
  /\ pc' = "exit"
  /\ UNCHANGED <<args, previous, extension_steps, first_priority_docks,
                 second_priority_docks,
                 final_exception_groups, all_exception_docks, warnings,
                 priorities, ex_idx, first_iter, second_iter, result_groups,
                 processed_docks_in_grouping, scan_idx, regular_group,
                 current_target_per_page, next_dock_idx_in_range>>

\* the input is valid: process_docks starts and builds its two hash sets
ProcessDocksEntry ==
  /\ pc = "main"
  /\ validate_input(args) = "Ok"
  /\ first_priority_docks' = Flatten(args.first_priority)
  /\ second_priority_docks' = Flatten(args.second_priority)
  /\ first_iter' = Flatten(args.first_priority)
  /\ second_iter' = Flatten(args.second_priority)
  /\ pc' = "resolve"
  /\ UNCHANGED <<args, previous, exit_code, extension_steps,
                 final_exception_groups, all_exception_docks, warnings,
                 stderr, priorities, ex_idx, result_groups,
                 processed_docks_in_grouping, scan_idx, regular_group,
                 current_target_per_page, next_dock_idx_in_range>>

(***************************************************************************)
(* The inputs.                                                             *)
(***************************************************************************)
\* every list of non-empty raw groups with at most n members in total
RECURSIVE RawGroupLists(_)
RawGroupLists(n) ==
  {<<>>} \cup
  UNION {{<<g>> \o rest : rest \in RawGroupLists(n - Len(g))} :
           g \in NonEmptySeqsUpTo(Docks, n)}

\* a set of docks as the command line gives it: one vector per number, ascending
RECURSIVE AsArgs(_)
AsArgs(S) == IF S = {} THEN <<>> ELSE << <<MinOf(S)>> >> \o AsArgs(S \ {MinOf(S)})

PrioritySets == {S \in SUBSET Docks : Cardinality(S) <= 2}

SmallPrioritySets == {S \in SUBSET Docks : Cardinality(S) <= 1}

\* the valid per-page capacities the inputs take (u16, at least 1)
Capacities == 1..2

OptionalCapacities == {None} \cup {Some(n) : n \in Capacities}

\* inputs that vary the raw exception groups: overlapping, repeated,
\* unsorted and out-of-range members, in one to MaxMembers groups
ExceptionInputs ==
  [min : 0..1, max : Docks,
   per_page : {2},
   first_priority_per_page : {None},
   second_priority_per_page : {None},
   first_priority : {AsArgs({}), AsArgs({1})},
   second_priority : {AsArgs({})},
   exception_groups_raw : RawGroupLists(MaxMembers),
   strict_first : {FALSE}, strict_second : {FALSE}]

\* inputs that vary the priority sets, the capacities and the strict flags
PriorityInputs ==
  [min : 0..1, max : Docks,
   per_page : Capacities,
   first_priority_per_page : OptionalCapacities,
   second_priority_per_page : OptionalCapacities,
   first_priority : {AsArgs(S) : S \in PrioritySets},
   second_priority : {AsArgs(S) : S \in SmallPrioritySets},
   exception_groups_raw : {<<>>, << <<3, 1>> >>},
   strict_first : BOOLEAN, strict_second : BOOLEAN]

\* inputs that vary what the validation looks at, zero capacities included
ValidationInputs ==
  [min : 0..1, max : Docks,
   per_page : {0} \cup Capacities,
   first_priority_per_page : OptionalCapacities \cup {Some(0)},
   second_priority_per_page : OptionalCapacities \cup {Some(0)},
   first_priority : {AsArgs({})},
   second_priority : {AsArgs({})},
   exception_groups_raw : {<<>>},
   strict_first : {FALSE}, strict_second : {FALSE}]

\* a capacity that takes a whole range of MaxDock docks in one group
WideCapacity == MaxDock

\* inputs with the wide capacity, so that a group has a seed, a middle and
\* a last member of three different classes
WideInputs ==
  [min : 0..1, max : Docks,
   per_page : {WideCapacity},
   first_priority_per_page : {None},
   second_priority_per_page : {None},
   first_priority : {AsArgs(S) : S \in SmallPrioritySets},
   second_priority : {AsArgs(S) : S \in SmallPrioritySets},
   exception_groups_raw : {<<>>},
   strict_first : BOOLEAN, strict_second : BOOLEAN]

Inputs ==
  ExceptionInputs \cup PriorityInputs \cup ValidationInputs \cup WideInputs

Init ==
  /\ args \in Inputs
  /\ pc = "main"
  /\ first_priority_docks = {}
  /\ second_priority_docks = {}
  /\ final_exception_groups = <<>>
  /\ all_exception_docks = {}
  /\ warnings = <<>>
  /\ stderr = <<>>
  /\ priorities = <<>>
  /\ ex_idx = 1
  /\ first_iter = {}
  /\ second_iter = {}
  /\ result_groups = <<>>
  /\ processed_docks_in_grouping = {}
  /\ scan_idx = 1
  /\ regular_group = <<>>
  /\ current_target_per_page = 0
  /\ next_dock_idx_in_range = 0
  /\ previous = None
  /\ exit_code = None
  /\ extension_steps = [claimed |-> 0, stopped |-> 0]

Next ==
  \/ ValidateFails
  \/ ProcessDocksEntry
  \/ ResolveGroup
  \/ SortExceptionGroups
  \/ ClassifyFirst
  \/ ClassifySecond
  \/ EmitWarnings
  \/ ScanSkip
  \/ ScanException
  \/ StartRegular
  \/ ExtendStep
  \/ ExtendStop
  \/ Return

Spec == Init /\ [][Next]_vars

\* the inputs of the runs followed to their end: no capacity is overridden,
\* at most one dock per priority class, at most one exception group, and
\* no strict mode for the second class
FairInputs ==
  {a \in Inputs : /\ a.first_priority_per_page = None
                  /\ a.second_priority_per_page = None
                  /\ Len(a.first_priority) <= 1
                  /\ ~a.strict_second
                  /\ a.exception_groups_raw \in {<<>>, << <<3, 1>> >>}}

InitFair == Init /\ args \in FairInputs

\* the program is one sequential process that runs on while it has a step
SpecFair == InitFair /\ [][Next]_vars /\ WF_vars(Next)

(***************************************************************************)
(* A second run of process_docks on the same args, to compare two runs.    *)
(***************************************************************************)
\* struct ProcessingResult, with what the run wrote to stderr beside it
ProcessingResult ==
  [result_groups |-> result_groups,
   priorities |-> priorities,
   all_exception_docks |-> all_exception_docks,
   fpp |-> fpp, spp |-> spp, gpp |-> gpp,
   final_exception_groups |-> final_exception_groups]

\* the first run has returned: its result is kept and process_docks is
\* entered again with the same args and fresh locals
Rerun ==
  /\ pc = "done"
  /\ previous = None
  /\ previous' = Some([result |-> ProcessingResult, stderr |-> stderr])
  /\ first_priority_docks' = Flatten(args.first_priority)
  /\ second_priority_docks' = Flatten(args.second_priority)
  /\ first_iter' = Flatten(args.first_priority)
  /\ second_iter' = Flatten(args.second_priority)
  /\ final_exception_groups' = <<>>
  /\ all_exception_docks' = {}
  /\ warnings' = <<>>
  /\ stderr' = <<>>
  /\ priorities' = <<>>
  /\ ex_idx' = 1
  /\ result_groups' = <<>>
  /\ processed_docks_in_grouping' = {}
  /\ scan_idx' = 1
  /\ regular_group' = <<>>
  /\ current_target_per_page' = 0
  /\ next_dock_idx_in_range' = 0
  /\ pc' = "resolve"
  /\ extension_steps' = [claimed |-> 0, stopped |-> 0]
  /\ UNCHANGED <<args, exit_code>>

\* the inputs of the two-run comparison: the capacities are not overridden
TwiceInputs ==
  {a \in Inputs : /\ a.first_priority_per_page = None
                  /\ a.second_priority_per_page = None
                  /\ a.first_priority = <<>> \/ a.exception_groups_raw \in
                                                  {<<>>, << <<3, 1>> >>}}

InitTwice == Init /\ args \in TwiceInputs

NextTwice == Next \/ Rerun

SpecTwice == InitTwice /\ [][NextTwice]_vars

(***************************************************************************)
(* A second run of process_docks on the args without their anomalies, to   *)
(* compare it with the run on the args as given.                           *)
(***************************************************************************)
InRangeOf(a, d) == d >= a.min /\ d <= a.max

\* the members of raw group i that are in range and in no earlier raw group
KeptMembers(a, i) ==
  LET raw == a.exception_groups_raw IN
  SelectSeq(raw[i],
            LAMBDA x : /\ InRangeOf(a, x)
                       /\ \A j \in 1..(i - 1) : x \notin Range(raw[j]))

\* the raw groups without the out-of-range members and without the docks an
\* earlier raw group holds; a group left without members is left out
RECURSIVE CleanedGroups(_, _)
CleanedGroups(a, i) ==
  IF i > Len(a.exception_groups_raw) THEN <<>>
  ELSE (IF KeptMembers(a, i) = <<>> THEN <<>> ELSE <<KeptMembers(a, i)>>)
       \o CleanedGroups(a, i + 1)

\* the args with every anomalous value removed
CleanedArgs(a) ==
  [a EXCEPT
     !.first_priority =
        AsArgs({d \in Flatten(a.first_priority) : InRangeOf(a, d)}),
     !.second_priority =
        AsArgs({d \in Flatten(a.second_priority) : InRangeOf(a, d)}),
     !.exception_groups_raw = CleanedGroups(a, 1)]

\* the first run has returned: its result is kept and process_docks is
\* entered again, with fresh locals, on the args without their anomalies
RerunCleaned ==
  /\ pc = "done"
  /\ previous = None
  /\ previous' = Some([result |-> ProcessingResult, stderr |-> stderr])
  /\ args' = CleanedArgs(args)
  /\ first_priority_docks' = Flatten(CleanedArgs(args).first_priority)
  /\ second_priority_docks' = Flatten(CleanedArgs(args).second_priority)
  /\ first_iter' = Flatten(CleanedArgs(args).first_priority)
  /\ second_iter' = Flatten(CleanedArgs(args).second_priority)
  /\ final_exception_groups' = <<>>
  /\ all_exception_docks' = {}
  /\ warnings' = <<>>
  /\ stderr' = <<>>
  /\ priorities' = <<>>
  /\ ex_idx' = 1
  /\ result_groups' = <<>>
  /\ processed_docks_in_grouping' = {}
  /\ scan_idx' = 1
  /\ regular_group' = <<>>
  /\ current_target_per_page' = 0
  /\ next_dock_idx_in_range' = 0
  /\ pc' = "resolve"
  /\ extension_steps' = [claimed |-> 0, stopped |-> 0]
  /\ UNCHANGED exit_code

NextCleaned == Next \/ RerunCleaned

SpecCleaned == InitTwice /\ [][NextCleaned]_vars

(***************************************************************************)
(* Properties of the result of process_docks.                              *)
(***************************************************************************)
RangeDocks == {d \in Docks : InRange(d)}

\* how often dock d occurs in the groups gs
Occurrences(gs, d) ==
  Cardinality({ij \in (1..Len(gs)) \X (1..(MaxDock + 1)) :
                 ij[2] <= Len(gs[ij[1]]) /\ gs[ij[1]][ij[2]] = d})

\* the result groups that are not exception groups
RegularGroups ==
  {i \in 1..Len(result_groups) : result_groups[i][1] \notin all_exception_docks}

\* the capacity the data model gives a priority class
CapacityOf(prio) ==
  CASE prio = First  -> unwrap_or(args.first_priority_per_page, args.per_page)
    [] prio = Second -> unwrap_or(args.second_priority_per_page, args.per_page)
    [] OTHER         -> args.per_page

\* C1: when process_docks returns, every dock of min..max occurs in exactly
\* one result group exactly once, and no result group holds a number outside
\* min..max.
C1_CoverageExclusivity ==
  pc = "done" =>
    /\ \A d \in RangeDocks : Occurrences(result_groups, d) = 1
    /\ \A i \in 1..Len(result_groups) : Range(result_groups[i]) \subseteq RangeDocks

C1_Witness ==
  /\ pc = "done"
  /\ Len(final_exception_groups) >= 1
  /\ \E i \in RegularGroups : Len(result_groups[i]) >= 2
  /\ Len(result_groups) >= 3

\* C2: when process_docks returns, every resolved exception group is exactly
\* one result group with the same member sequence, and none of its members
\* occurs in any other result group.
C2_ExceptionAtomicity ==
  pc = "done" =>
    \A k \in 1..Len(final_exception_groups) :
      LET same == {i \in 1..Len(result_groups) :
                     result_groups[i] = final_exception_groups[k]}
      IN  /\ Cardinality(same) = 1
          /\ \A i \in 1..Len(result_groups) :
               i \notin same =>
                 Range(result_groups[i]) \cap Range(final_exception_groups[k]) = {}

C2_Witness ==
  /\ pc = "done"
  /\ \E k \in 1..Len(final_exception_groups) :
       /\ Len(final_exception_groups[k]) >= 2
       /\ \E d \in RangeDocks \ all_exception_docks :
            /\ final_exception_groups[k][1] < d
            /\ d < final_exception_groups[k][Len(final_exception_groups[k])]

\* C3: when process_docks returns, a regular result group has at most as many
\* members as the capacity of its first member's priority class (fpp for
\* First, spp for Second, gpp for Third or unclassified).
C3_CapacityBound ==
  pc = "done" =>
    \A i \in RegularGroups :
      Len(result_groups[i]) <= CapacityOf(PriorityOf(result_groups[i][1]))

\* a First-seeded group that only its own capacity stopped, next to a
\* Third-seeded group filled to the general capacity
C3_Witness ==
  /\ pc = "done"
  /\ \E i \in RegularGroups :
       /\ PriorityOf(result_groups[i][1]) = First
       /\ args.first_priority_per_page # None
       /\ fpp # gpp
       /\ Len(result_groups[i]) = fpp
       /\ result_groups[i][Len(result_groups[i])] < args.max
       /\ result_groups[i][Len(result_groups[i])] + 1 \notin all_exception_docks
       /\ ~args.strict_first
  /\ \E i \in RegularGroups :
       /\ PriorityOf(result_groups[i][1]) = Third
       /\ Len(result_groups[i]) = gpp
       /\ gpp >= 2

\* C4: when process_docks returns, no member of a regular result group has a
\* priority strictly more important than that of the group's first member.
C4_PriorityNonDegradation ==
  pc = "done" =>
    \A i \in RegularGroups :
      \A j \in 1..Len(result_groups[i]) :
        PriorityOf(result_groups[i][j]) >= PriorityOf(result_groups[i][1])

\* a Third-seeded group that stopped below its capacity in front of a more
\* important dock, and a First-seeded group that took in a lesser dock
C4_Witness ==
  /\ pc = "done"
  /\ \E i \in RegularGroups :
       LET g == result_groups[i] IN
       /\ PriorityOf(g[1]) = Third
       /\ Len(g) < gpp
       /\ g[Len(g)] < args.max
       /\ g[Len(g)] + 1 \notin all_exception_docks
       /\ PriorityOf(g[Len(g)] + 1) < Third
  /\ \E i \in RegularGroups :
       LET g == result_groups[i] IN
       /\ PriorityOf(g[1]) = First
       /\ Len(g) >= 2
       /\ PriorityOf(g[2]) > First

\* C5: when process_docks returns, with strict_first every regular result
\* group whose first member is First holds only First docks, and with
\* strict_second every regular result group whose first member is Second
\* holds only Second docks.
C5_StrictMode ==
  pc = "done" =>
    \A i \in RegularGroups :
      LET g == result_groups[i] IN
      /\ (args.strict_first /\ PriorityOf(g[1]) = First) =>
           \A j \in 1..Len(g) : PriorityOf(g[j]) = First
      /\ (args.strict_second /\ PriorityOf(g[1]) = Second) =>
           \A j \in 1..Len(g) : PriorityOf(g[j]) = Second

\* a strict group that stopped below its capacity in front of a lesser dock,
\* for strict_first alone and for strict_second alone
C5_Witness ==
  /\ pc = "done"
  /\ \E i \in RegularGroups :
       LET g == result_groups[i] IN
       /\ Len(g) < CapacityOf(PriorityOf(g[1]))
       /\ g[Len(g)] < args.max
       /\ g[Len(g)] + 1 \notin all_exception_docks
       /\ PriorityOf(g[Len(g)] + 1) > PriorityOf(g[1])
       /\ \/ args.strict_first /\ ~args.strict_second /\ PriorityOf(g[1]) = First
          \/ args.strict_second /\ ~args.strict_first /\ PriorityOf(g[1]) = Second

(***************************************************************************)
(* Properties of the Exception Group Resolver and the Priority Classifier. *)
(***************************************************************************)
\* the loop over the raw groups and the sort of the resolved groups are over
Resolved == pc \in {"classify", "scan", "extend", "done"}

\* the priority loops are over
Classified == pc \in {"scan", "extend", "done"}

\* every warning recorded so far, printed or not
AllWarnings == stderr \o warnings

RawGroups == args.exception_groups_raw

\* the raw groups that mention dock d
RawGroupsWith(d) == {i \in 1..Len(RawGroups) : d \in Range(RawGroups[i])}

\* C7: after the resolution the resolved groups are non-empty and pairwise
\* disjoint, all_exception_docks is the union of their members, and each dock
\* of all_exception_docks is in exactly one resolved group.
C7_ResolvedGroupsDisjoint ==
  Resolved =>
    /\ \A k \in 1..Len(final_exception_groups) : final_exception_groups[k] # <<>>
    /\ \A k, l \in 1..Len(final_exception_groups) :
         k # l => Range(final_exception_groups[k])
                    \cap Range(final_exception_groups[l]) = {}
    /\ all_exception_docks =
         UNION {Range(final_exception_groups[k]) :
                  k \in 1..Len(final_exception_groups)}
    /\ \A d \in all_exception_docks :
         Occurrences(final_exception_groups, d) = 1

\* two raw groups share an in-range dock and both leave a resolved group
C7_Witness ==
  /\ pc = "classify"
  /\ Len(final_exception_groups) >= 2
  /\ \E i, j \in 1..Len(RawGroups) :
       /\ i < j
       /\ Range(RawGroups[i]) \cap Range(RawGroups[j]) \cap RangeDocks # {}

\* C8: after the resolution each resolved group is strictly ascending with
\* all members in min..max, and the groups are in strictly ascending order
\* of their first members.
C8_CanonicalForm ==
  Resolved =>
    /\ \A k \in 1..Len(final_exception_groups) :
         LET g == final_exception_groups[k] IN
         /\ \A i, j \in 1..Len(g) : i < j => g[i] < g[j]
         /\ Range(g) \subseteq RangeDocks
    /\ \A k, l \in 1..Len(final_exception_groups) :
         k < l => /\ final_exception_groups[k] # <<>>
                  /\ final_exception_groups[l] # <<>>
                  /\ final_exception_groups[k][1] < final_exception_groups[l][1]

\* the raw groups came with the larger docks first, one of them unsorted
C8_Witness ==
  /\ pc = "classify"
  /\ Len(RawGroups) = 2
  /\ Len(final_exception_groups) = 2
  /\ Len(RawGroups[1]) = 2
  /\ RawGroups[1][1] > RawGroups[1][2]
  /\ RawGroups[1][2] > RawGroups[2][1]
  /\ Range(RawGroups[1]) \cup Range(RawGroups[2]) \subseteq RangeDocks

\* the members raw group i keeps: in range and in no earlier raw group
Derived(i) ==
  {x \in Range(RawGroups[i]) \cap RangeDocks :
     \A j \in 1..(i - 1) : x \notin Range(RawGroups[j])}

DuplicateWarnings(d) ==
  Cardinality({n \in 1..Len(AllWarnings) :
                 AllWarnings[n] = <<"exception_duplicate", d>>})

\* C9: after the resolution an in-range dock of the raw groups is in the
\* resolved group made of what the earliest raw group holding it keeps; it
\* has one duplicate warning for each later raw group holding it; and a raw
\* group that keeps nothing leaves no resolved group.
C9_FirstClaimWins ==
  Resolved =>
    /\ \A d \in RangeDocks :
         RawGroupsWith(d) # {} =>
           /\ \E k \in 1..Len(final_exception_groups) :
                /\ d \in Range(final_exception_groups[k])
                /\ Range(final_exception_groups[k]) = Derived(MinOf(RawGroupsWith(d)))
           /\ DuplicateWarnings(d) = Cardinality(RawGroupsWith(d)) - 1
    /\ Len(final_exception_groups) =
         Cardinality({i \in 1..Len(RawGroups) : Derived(i) # {}})

\* a dock of two raw groups, a later raw group that keeps nothing, and a dock
\* named twice by one raw group
C9_Witness ==
  /\ pc = "classify"
  /\ \E d \in RangeDocks : Cardinality(RawGroupsWith(d)) >= 2
  /\ \E i \in 1..Len(RawGroups) : Derived(i) = {} /\ i > 1
  /\ \E i \in 1..Len(RawGroups) :
       \E m, n \in 1..Len(RawGroups[i]) :
         m < n /\ RawGroups[i][m] = RawGroups[i][n] /\ InRange(RawGroups[i][m])
  /\ Len(final_exception_groups) >= 1

\* C10: after the priority loops a dock maps to First exactly when it is in
\* the first-priority set, in min..max and no exception dock; it maps to
\* Second exactly when it is in the second-priority set, not in the
\* first-priority set, in min..max and no exception dock; and no exception
\* dock and no dock outside min..max has an entry.
C10_PriorityMap ==
  Classified =>
    /\ \A d \in Docks :
         /\ (d \in DOMAIN priorities /\ priorities[d] = First) <=>
              /\ d \in Flatten(args.first_priority)
              /\ InRange(d)
              /\ d \notin all_exception_docks
         /\ (d \in DOMAIN priorities /\ priorities[d] = Second) <=>
              /\ d \in Flatten(args.second_priority)
              /\ d \notin Flatten(args.first_priority)
              /\ InRange(d)
              /\ d \notin all_exception_docks
    /\ DOMAIN priorities \cap all_exception_docks = {}
    /\ DOMAIN priorities \subseteq RangeDocks

\* a dock of both priority sets is classified, an exception dock of a
\* priority set is not
C10_Witness ==
  /\ pc = "done"
  /\ \E d \in RangeDocks \ all_exception_docks :
       /\ d \in Flatten(args.first_priority)
       /\ d \in Flatten(args.second_priority)
  /\ \E d \in all_exception_docks : d \in Flatten(args.first_priority)

(***************************************************************************)
(* Two runs on the same input.                                             *)
(***************************************************************************)
\* C6: when a second run of process_docks on the same args returns, its
\* result groups, resolved exception groups and priority map are those of
\* the first run, whatever order the hash sets were iterated in and whatever
\* the unstable sort did in either run.
C6_Determinism ==
  (pc = "done" /\ previous # None) =>
    /\ result_groups = previous[1].result.result_groups
    /\ final_exception_groups = previous[1].result.final_exception_groups
    /\ priorities = previous[1].result.priorities

\* the two runs visited a hash set in different orders: they printed the
\* same warnings in different orders
C6_Witness ==
  /\ pc = "done"
  /\ previous # None
  /\ previous[1].stderr # stderr
  /\ Len(stderr) >= 2

(***************************************************************************)
(* The priority map that process_docks returns.                            *)
(***************************************************************************)
\* the docks of min..max that are no exception docks
NonExceptionDocks == RangeDocks \ all_exception_docks

\* the docks the first- or second-priority input names
AssignedDocks == Flatten(args.first_priority) \cup Flatten(args.second_priority)

InvalidInput ==
  \/ args.per_page = 0
  \/ args.first_priority_per_page = Some(0)
  \/ args.second_priority_per_page = Some(0)
  \/ args.min > args.max

\* C12: the validation gives an error exactly for a zero per_page, a zero
\* first or second per-page override, or min > max; after a failed validation
\* the program has exited with a non-zero status, the partitioning has not
\* run and there is no result group; a valid input never exits this way.
C12_ValidationGuardsCore ==
  /\ (validate_input(args) = "Err") <=> InvalidInput
  /\ (InvalidInput /\ pc # "main") =>
       /\ pc = "exit"
       /\ exit_code # None
       /\ exit_code[1] # 0
       /\ result_groups = <<>>
       /\ processed_docks_in_grouping = {}
  /\ ~InvalidInput => (pc # "exit" /\ exit_code = None)

\* the program has exited on an input whose only fault is min > max
C12_Witness ==
  /\ pc = "exit"
  /\ exit_code = Some(1)
  /\ args.per_page >= 1
  /\ args.first_priority_per_page # Some(0)
  /\ args.second_priority_per_page # Some(0)
  /\ args.min > args.max
  /\ args.exception_groups_raw # <<>>

(***************************************************************************)
(* Anomalous values: out-of-range docks and docks of several raw groups.   *)
(***************************************************************************)
WarningCount(kind, d) ==
  Cardinality({n \in 1..Len(AllWarnings) : AllWarnings[n] = <<kind, d>>})

\* how often the raw groups name dock d
RawOccurrences(d) ==
  Cardinality({ij \in UNION {{<<i, j>> : j \in 1..Len(RawGroups[i])} :
                               i \in 1..Len(RawGroups)} :
                 RawGroups[ij[1]][ij[2]] = d})

\* some value of the args is anomalous
HasAnomaly == CleanedArgs(args) # args

\* C13: a run on args with anomalous values (out-of-range priority docks,
\* out-of-range exception members, docks of several raw exception groups)
\* returns with one warning recorded for each dropped value, and a run on the
\* same args without those values returns the same result groups, priority
\* map and resolved exception groups, with no warning.
C13_AnomaliesOnlyWarn ==
  /\ (pc = "done" /\ previous = None) =>
       \A d \in Docks :
         /\ WarningCount("first_out_of_range", d) =
              IF d \in Flatten(args.first_priority) /\ ~InRange(d) THEN 1 ELSE 0
         /\ WarningCount("second_out_of_range", d) =
              IF d \in Flatten(args.second_priority) /\ ~InRange(d) THEN 1 ELSE 0
         /\ WarningCount("exception_out_of_range", d) =
              IF InRange(d) THEN 0 ELSE RawOccurrences(d)
         /\ WarningCount("exception_duplicate", d) =
              IF InRange(d) /\ RawGroupsWith(d) # {}
              THEN Cardinality(RawGroupsWith(d)) - 1 ELSE 0
  /\ (pc = "done" /\ previous # None) =>
       /\ result_groups = previous[1].result.result_groups
       /\ priorities = previous[1].result.priorities
       /\ final_exception_groups = previous[1].result.final_exception_groups
       /\ AllWarnings = <<>>

\* the run on the cleaned args has returned after a run that recorded an
\* out-of-range warning and a duplicate warning and built a regular group
C13_Witness ==
  /\ pc = "done"
  /\ previous # None
  /\ \E n, m \in 1..Len(previous[1].stderr) :
       /\ previous[1].stderr[n][1] = "exception_duplicate"
       /\ previous[1].stderr[m][1] \in
            {"exception_out_of_range", "first_out_of_range"}
  /\ final_exception_groups # <<>>
  /\ \E i \in RegularGroups : Len(result_groups[i]) >= 2

LastOf(i) == result_groups[i][Len(result_groups[i])]

\* C15: when process_docks returns, a regular result group with seed s and
\* last member e ends for a reason: e is max, or the group holds exactly the
\* capacity of the seed's class, or e + 1 is an exception dock, or e + 1 is
\* more important than s, or s is First under strict_first and e + 1 is not
\* First, or s is Second under strict_second and e + 1 is not Second.
C15_GreedyExtension ==
  pc = "done" =>
    \A i \in RegularGroups :
      LET s == result_groups[i][1]
          e == LastOf(i)
      IN  \/ e = args.max
          \/ Len(result_groups[i]) = CapacityOf(PriorityOf(s))
          \/ e + 1 \in all_exception_docks
          \/ PriorityOf(e + 1) < PriorityOf(s)
          \/ PriorityOf(s) = First /\ args.strict_first /\ PriorityOf(e + 1) # First
          \/ PriorityOf(s) = Second /\ args.strict_second /\ PriorityOf(e + 1) # Second

\* without strict modes, a First-seeded group took in a lesser dock and a
\* Second-seeded group took in a Third dock
C15_Witness ==
  /\ pc = "done"
  /\ ~args.strict_first
  /\ ~args.strict_second
  /\ \E i \in RegularGroups :
       /\ PriorityOf(result_groups[i][1]) = First
       /\ Len(result_groups[i]) >= 2
       /\ PriorityOf(LastOf(i)) > First
  /\ \E i \in RegularGroups :
       /\ PriorityOf(result_groups[i][1]) = Second
       /\ Len(result_groups[i]) >= 2
       /\ PriorityOf(LastOf(i)) = Third

(***************************************************************************)
(* A more important dock and the group before it.                          *)
(***************************************************************************)
\* the index of the result group that holds dock d
GroupOf(d) ==
  CHOOSE i \in 1..Len(result_groups) : d \in Range(result_groups[i])

\* dock c follows a member of a regular group
FollowsRegular(c) ==
  /\ c \in RangeDocks
  /\ c - 1 \in RangeDocks
  /\ c \notin all_exception_docks
  /\ c - 1 \notin all_exception_docks

\* dock c is the first member of a regular result group
StartsRegular(c) ==
  \E i \in RegularGroups : result_groups[i][1] = c

\* C16, as stated: when process_docks returns, a non-exception dock c that is
\* more important than dock c - 1, a member of a regular group, is not in
\* the group of c - 1 and is the first member of a regular group.
C16_FreshGroupAfterPredecessor ==
  pc = "done" =>
    \A c \in RangeDocks :
      (FollowsRegular(c) /\ PriorityOf(c) < PriorityOf(c - 1)) =>
        (GroupOf(c) # GroupOf(c - 1) /\ StartsRegular(c))

\* C16, amended: when process_docks returns, a non-exception dock c that is
\* more important than the seed of the regular group that holds dock c - 1
\* is not in that group and is the first member of a regular group.
C16_FreshGroupAfterSeed ==
  pc = "done" =>
    \A c \in RangeDocks :
      (FollowsRegular(c)
        /\ PriorityOf(c) < PriorityOf(result_groups[GroupOf(c - 1)][1])) =>
        (GroupOf(c) # GroupOf(c - 1) /\ StartsRegular(c))

\* a more important dock follows a group that still had room, with no
\* strict mode to end that group
C16_Witness ==
  /\ pc = "done"
  /\ ~args.strict_first
  /\ ~args.strict_second
  /\ \E c \in RangeDocks :
       /\ FollowsRegular(c)
       /\ PriorityOf(c) < PriorityOf(result_groups[GroupOf(c - 1)][1])
       /\ Len(result_groups[GroupOf(c - 1)])
            < CapacityOf(PriorityOf(result_groups[GroupOf(c - 1)][1]))
       /\ StartsRegular(c)

(***************************************************************************)
(* The order in which the groups are emitted.                              *)
(***************************************************************************)
\* the outer loop has gone past dock d
Scanned(d) == Position(d) + 1 < scan_idx

\* the resolved exception group k is one of the result groups
Emitted(k) ==
  \E i \in 1..Len(result_groups) : result_groups[i] = final_exception_groups[k]

\* C17: all through the scan and at the return, the first members of the
\* result groups ascend strictly, and the seed of the group being extended
\* is above them; a resolved exception group is among the result groups
\* exactly when the scan has gone past its least member; and a result group
\* that starts with an exception dock is a resolved group starting with its
\* least member.
C17_EmissionOrder ==
  Classified =>
    /\ \A i, j \in 1..Len(result_groups) :
         i < j => result_groups[i][1] < result_groups[j][1]
    /\ pc = "extend" =>
         \A i \in 1..Len(result_groups) : result_groups[i][1] < regular_group[1]
    /\ \A k \in 1..Len(final_exception_groups) :
         Emitted(k) <=> Scanned(MinOf(Range(final_exception_groups[k])))
    /\ \A i \in 1..Len(result_groups) :
         result_groups[i][1] \in all_exception_docks =>
           /\ \E k \in 1..Len(final_exception_groups) :
                final_exception_groups[k] = result_groups[i]
           /\ result_groups[i][1] = MinOf(Range(result_groups[i]))

\* an exception group was emitted after a smaller regular group and before
\* a regular group whose dock lies between two of its members
C17_Witness ==
  /\ pc = "done"
  /\ \E i \in 2..Len(result_groups) :
       /\ result_groups[i][1] \in all_exception_docks
       /\ i - 1 \in RegularGroups
       /\ i + 1 \in RegularGroups
       /\ result_groups[i + 1][1] < result_groups[i][Len(result_groups[i])]

(***************************************************************************)
(* The shape of a regular group.                                           *)
(***************************************************************************)
\* the members of g are consecutive numbers, ascending
IsRun(g) == \A j \in 1..(Len(g) - 1) : g[j + 1] = g[j] + 1

\* C18: a regular group, while it is extended and among the result groups,
\* is a run of consecutive dock numbers and holds no exception dock.
C18_RegularGroupsAreRuns ==
  /\ pc = "extend" =>
       /\ IsRun(regular_group)
       /\ Range(regular_group) \cap all_exception_docks = {}
  /\ Classified =>
       \A i \in RegularGroups :
         /\ IsRun(result_groups[i])
         /\ Range(result_groups[i]) \cap all_exception_docks = {}

\* a dock between two members of one exception group is a regular group of
\* its own, after that exception group, though its capacity is 2 or more
C18_Witness ==
  /\ pc = "done"
  /\ \E i \in RegularGroups :
       /\ i > 1
       /\ Len(result_groups[i]) = 1
       /\ CapacityOf(PriorityOf(result_groups[i][1])) >= 2
       /\ result_groups[i][1] - 1 \in Range(result_groups[i - 1])
       /\ result_groups[i][1] + 1 \in Range(result_groups[i - 1])

(***************************************************************************)
(* A range without priority and exception docks.                           *)
(***************************************************************************)
\* no dock is given a priority and no exception group is given
PlainInput ==
  /\ args.first_priority = <<>>
  /\ args.second_priority = <<>>
  /\ args.exception_groups_raw = <<>>

\* the docks lo..hi as a group
RunFrom(lo, hi) == [j \in 1..(hi - lo + 1) |-> lo + j - 1]

\* the k-th chunk (from 0) of g docks of the range
Chunk(k, g) ==
  RunFrom(args.min + k * g, MinOf({args.max, args.min + (k + 1) * g - 1}))

\* C19: when process_docks returns for an input without priority docks and
\* exception groups and with per_page = g, there are ceil((max - min + 1) / g)
\* result groups, and the k-th of them (from 0) is the docks
\* min + k*g .. min(max, min + (k+1)*g - 1).
C19_PlainChunks ==
  (pc = "done" /\ PlainInput) =>
    LET g == args.per_page
        n == args.max - args.min + 1
    IN  /\ Len(result_groups) = (n + g - 1) \div g
        /\ \A k \in 0..(Len(result_groups) - 1) :
             result_groups[k + 1] = Chunk(k, g)

\* a plain range cut into full chunks of two or more docks and a shorter
\* last chunk
C19_Witness ==
  /\ pc = "done"
  /\ PlainInput
  /\ args.per_page >= 2
  /\ Len(result_groups) >= 2
  /\ Len(result_groups[1]) = args.per_page
  /\ Len(result_groups[Len(result_groups)]) < args.per_page

(***************************************************************************)
(* Termination of process_docks.                                           *)
(***************************************************************************)
\* the number of docks of the range of a valid input
RangeSize == args.max - args.min + 1

\* the result groups, the one being extended included
GroupsBegun == Len(result_groups) + (IF pc = "extend" THEN 1 ELSE 0)

\* process_docks has been entered, which main does for a valid input only
Entered == pc = "resolve"

\* C20, as stated: the passes through the body of the extension loop, each
\* of which pushes an unclaimed dock or breaks off, and the emitted groups
\* are together at most max - min + 1, and process_docks, once entered,
\* returns.
C20_TerminatesAsStated ==
  /\ [](Classified =>
          Len(result_groups) + extension_steps.claimed
            + extension_steps.stopped <= RangeSize)
  /\ (Entered ~> pc = "done")

\* C20, amended: the outer loop never goes past the end of the range; the
\* passes through the body of the extension loop that push a dock and the
\* groups begun are together at most max - min + 1; all passes through the
\* body, breaking ones included, are at most max - min; and process_docks,
\* once entered, returns.
C20_Terminates ==
  /\ [](Classified =>
          /\ scan_idx <= RangeSize + 1
          /\ GroupsBegun + extension_steps.claimed <= RangeSize
          /\ extension_steps.claimed + extension_steps.stopped <= RangeSize - 1)
  /\ (Entered ~> pc = "done")

\* a run has returned in which the loop body has pushed and has broken off,
\* so that pushes, breaks and groups together exceed the size of the range
C20_Witness ==
  /\ pc = "done"
  /\ extension_steps.claimed >= 1
  /\ extension_steps.stopped >= 1
  /\ Len(result_groups) + extension_steps.claimed
       + extension_steps.stopped > RangeSize

====
